---- MODULE Spec2Model ----
(***************************************************************************)
(* A model of f1tests1st.py, the Streamlit dashboard script: the cached    *)
(* data loaders, the top-to-bottom render of the panels (each rerun of the *)
(* script is one render), the gear-track segment transform and the         *)
(* headline list.                                                          *)
(***************************************************************************)
EXTENDS Integers, Sequences, FiniteSets, TLC

VARIABLES
    pc,                     \* position of the script within the current render
    renders,                \* number of renders started in this process
    schedule_cache,         \* st.cache_data store of get_schedule, by year
    session_cache,          \* st.cache_resource store of load_race_session, by key
    calls,                  \* per key: invocations of load_race_session
    bodyRuns,               \* per key: executions of the body of load_race_session
    returned,               \* per key: ids of the session objects returned
    nextId,                 \* identity of the next session object constructed
    year_selection,
    race_selection,
    race_format_selection,  \* "Race"/"Qualifying" until line 43, then "R"/"Q"
    placeholder,
    race,                   \* the session object returned by load_race_session
    driver1,
    driver2,
    gear_cols,              \* what each of the two gear-track columns displays
    position_out,           \* what the position-change panel displays
    panels,                 \* section headers written so far in this render
    all_articles,           \* what google_news.get_news returned
    article_link,           \* the title -> url dict, in insertion order
    headlines_out,          \* the (title, url) entries displayed
    gpc,                    \* position within lines 137-166 of the gear-change loop
    tel,                    \* the telemetry of the fastest lap
    points,
    segments,
    gear,
    lc_comp                 \* the LineCollection: segments, array, colours drawn

vars == <<pc, renders, schedule_cache, session_cache, calls, bodyRuns, returned,
          nextId, year_selection, race_selection, race_format_selection,
          placeholder, race, driver1, driver2, gear_cols, position_out, panels,
          all_articles, article_link, headlines_out, gpc, tel, points, segments, gear, lc_comp>>

gearVars == <<gpc, tel, points, segments, gear, lc_comp>>

renderVars == <<pc, renders, schedule_cache, session_cache, calls, bodyRuns, returned,
                nextId, year_selection, race_selection, race_format_selection,
                placeholder, race, driver1, driver2, gear_cols, position_out, panels,
                all_articles, article_link, headlines_out>>

\* ------------------------------------------------------------------ bounds

MaxRenders == 3
MaxSamples == 3
MaxCoord == 1
MaxTelGear == 2
MaxGearDev == 20

\* ----------------------------------------------------- the provider's data

None == "None"

Years == {2024}

\* fastf1.get_event_schedule(year): the events of a season.
EventSchedule(year) ==
    << [EventName |-> "Pre-Season Testing", EventFormat |-> "testing"],
       [EventName |-> "Italian Grand Prix", EventFormat |-> "conventional"] >>

\* race.results: BroadcastName -> Abbreviation.
Results == [x \in {"M VERSTAPPEN", "L HAMILTON"} |->
               IF x = "M VERSTAPPEN" THEN "VER" ELSE "HAM"]

BroadcastNames == DOMAIN Results

\* race.drivers
Drivers == {Results[b] : b \in BroadcastNames}

\* The laps of one driver: none or some (n), and whether any has a valid lap time.
DriverLaps == {l \in [n : {0, 1}, valid : BOOLEAN] : l.valid => l.n > 0}

LapTables == [Drivers -> DriverLaps]

SessionKeys == Years \X {"Italian Grand Prix"} \X {"R", "Q"}

\* ------------------------------------------------------------ the loaders

\* st.cache_data / st.cache_resource: a store of the values computed, by key.
CacheHit(cache, key) == key \in DOMAIN cache

CacheRead(cache, key) == cache[key]

\* A store that forgets: every call is a miss.
CacheWriteDropped(cache, key, value) == cache

CacheWrite(cache, key, value) ==
    [k \in DOMAIN cache \cup {key} |-> IF k = key THEN value ELSE cache[k]]

\* get_schedule(year), lines 21-23: the value returned, and the store afterwards.
get_schedule(year) ==
    IF CacheHit(schedule_cache, year)
    THEN CacheRead(schedule_cache, year)
    ELSE EventSchedule(year)

ScheduleCacheAfter(year) ==
    IF CacheHit(schedule_cache, year)
    THEN schedule_cache
    ELSE CacheWrite(schedule_cache, year, EventSchedule(year))

\* schedule[schedule['EventFormat'] != 'testing']['EventName'].to_list(), line 38
race_options(schedule) ==
    {schedule[i].EventName : i \in {j \in 1..Len(schedule) :
                                        schedule[j].EventFormat # "testing"}}

\* Lines 43-48: the session code of the selected format.
FormatCode(format) == IF format = "Race" THEN "R" ELSE "Q"

\* load_race_session(year, race_name, race_format_selection), lines 25-29: the
\* body runs on a miss, constructs a session whose laps the provider decides,
\* and the result is stored under the key.
load_race_session(key) ==
    /\ calls' = [calls EXCEPT ![key] = @ + 1]
    /\ IF CacheHit(session_cache, key)
       THEN /\ race' = CacheRead(session_cache, key)
            /\ UNCHANGED <<session_cache, bodyRuns, nextId>>
       ELSE /\ \E laps \in LapTables :
                 LET session == [id |-> nextId, key |-> key, laps |-> laps] IN
                 /\ race' = session
                 /\ session_cache' = CacheWrite(session_cache, key, session)
            /\ bodyRuns' = [bodyRuns EXCEPT ![key] = @ + 1]
            /\ nextId' = nextId + 1
    /\ returned' = [returned EXCEPT ![key] = @ \cup {race'.id}]

\* ------------------------------------------------------------- the panels

Formats == {"Race", "Qualifying"}

NoSession == [id |-> 0, key |-> <<0, "", "">>, laps |-> [d \in Drivers |-> [n |-> 0, valid |-> FALSE]]]

EmptyCols == [i \in {0, 1} |-> <<>>]

\* race.laps.pick_drivers(drv)
pick_drivers(session, drv) == session.laps[drv]

\* driver_laps.empty
empty(driver_laps) == driver_laps.n = 0

\* driver_laps.pick_fastest(): None when no lap has a valid time.
pick_fastest(driver_laps) == IF driver_laps.valid THEN "fastest" ELSE None

\* The loop without its empty check: a chart is attempted whatever the laps.
GearColumnUnchecked(driver_laps) ==
    IF pick_fastest(driver_laps) # None THEN "chart" ELSE "chart of no lap"

\* Lines 129-170: what one gear-track column displays for a driver's laps.
GearColumn(driver_laps) ==
    IF ~empty(driver_laps)
    THEN IF pick_fastest(driver_laps) # None
         THEN "chart"
         ELSE "warning: No valid lap found"
    ELSE "warning: No lap data available"

\* Lines 187-188: the axis of the position chart, limits in tenths.
PositionChart == [kind |-> "chart", ylim |-> <<205, 5>>, yticks |-> <<1, 5, 10, 15, 20>>]

PositionNote == [kind |-> "note", text |-> "No Position change during Qualifying"]

\* Lines 177-180: drv_laps['Driver'].iloc[0] raises IndexError on a driver
\* of race.drivers without laps.
PositionLoopRaises(session) == \E drv \in Drivers : empty(pick_drivers(session, drv))

\* Lines 32-48 of a rerun of the script: the sidebar's selections.
Sidebar ==
    /\ pc \in {"idle", "done", "error"}
    /\ renders < MaxRenders
    /\ renders' = renders + 1
    /\ \E year \in Years, format \in Formats :
         /\ year_selection' = year
         /\ schedule_cache' = ScheduleCacheAfter(year)
         /\ \E name \in race_options(get_schedule(year)) : race_selection' = name
         /\ placeholder' = format
         /\ race_format_selection' = FormatCode(format)
    /\ race' = NoSession
    /\ driver1' = None
    /\ driver2' = None
    /\ gear_cols' = EmptyCols
    /\ position_out' = <<>>
    /\ panels' = <<>>
    /\ all_articles' = <<>>
    /\ article_link' = <<>>
    /\ headlines_out' = <<>>
    /\ pc' = "load"
    /\ UNCHANGED <<session_cache, calls, bodyRuns, returned, nextId>>
    /\ UNCHANGED gearVars

\* Lines 53-54.
LoadData ==
    /\ pc = "load"
    /\ load_race_session(<<year_selection, race_selection, race_format_selection>>)
    /\ pc' = "drivers"
    /\ UNCHANGED <<renders, schedule_cache, year_selection, race_selection,
                   race_format_selection, placeholder, driver1, driver2, gear_cols,
                   position_out, panels, all_articles, article_link, headlines_out>>
    /\ UNCHANGED gearVars

\* Lines 57-71: the two driver select boxes.
SelectDrivers ==
    /\ pc = "drivers"
    /\ \E b1 \in BroadcastNames, b2 \in BroadcastNames :
         /\ driver1' = b1
         /\ driver2' = b2
    /\ pc' = "laptrace"
    /\ UNCHANGED <<renders, schedule_cache, session_cache, calls, bodyRuns, returned,
                   nextId, year_selection, race_selection, race_format_selection,
                   placeholder, race, gear_cols, position_out, panels, all_articles,
                   article_link, headlines_out>>
    /\ UNCHANGED gearVars

\* A panel that only draws: its header is written and the script goes on.
DrawPanel(here, name, next) ==
    /\ pc = here
    /\ panels' = Append(panels, name)
    /\ pc' = next
    /\ UNCHANGED <<renders, schedule_cache, session_cache, calls, bodyRuns, returned,
                   nextId, year_selection, race_selection, race_format_selection,
                   placeholder, race, driver1, driver2, gear_cols, position_out,
                   all_articles, article_link, headlines_out>>
    /\ UNCHANGED gearVars

\* Lines 76-89.
LapTimeTrace == DrawPanel("laptrace", "Lap Time Trace", "tyres")

\* Lines 91-107.
TirePace == DrawPanel("tyres", "Tire Compound & Pace", "gearhead")

\* Lines 109-125.
GearHeader == DrawPanel("gearhead", "Gear Change on Track", "gear0")

\* drivers_to_plot, line 114
drivers_to_plot == <<Results[driver1], Results[driver2]>>

\* Lines 127-170: iteration i of the gear-change loop.
GearChange(i) ==
    /\ pc = (IF i = 0 THEN "gear0" ELSE "gear1")
    /\ LET driver_laps == pick_drivers(race, drivers_to_plot[i + 1]) IN
       gear_cols' = [gear_cols EXCEPT ![i] = Append(@, GearColumn(driver_laps))]
    /\ pc' = (IF i = 0 THEN "gear1" ELSE "position")
    /\ UNCHANGED <<renders, schedule_cache, session_cache, calls, bodyRuns, returned,
                   nextId, year_selection, race_selection, race_format_selection,
                   placeholder, race, driver1, driver2, position_out, panels,
                   all_articles, article_link, headlines_out>>
    /\ UNCHANGED gearVars

\* Lines 172-195.
PositionChange ==
    /\ pc = "position"
    /\ panels' = Append(panels, "Position Change")
    /\ IF race_format_selection = "R"
       THEN IF PositionLoopRaises(race)
            THEN /\ pc' = "error"
                 /\ UNCHANGED position_out
            ELSE /\ position_out' = Append(position_out, PositionChart)
                 /\ pc' = "headlines"
       ELSE /\ position_out' = Append(position_out, PositionNote)
            /\ pc' = "headlines"
    /\ UNCHANGED <<renders, schedule_cache, session_cache, calls, bodyRuns, returned,
                   nextId, year_selection, race_selection, race_format_selection,
                   placeholder, race, driver1, driver2, gear_cols, all_articles,
                   article_link, headlines_out>>
    /\ UNCHANGED gearVars

\* ---------------------------------------------------------- the headlines

\* google_news.max_results, line 209
max_results == 3

Titles == {"t1", "t2"}

Urls == {"u1", "u2"}

Articles == [title : Titles, url : Urls]

\* google_news.get_news(...): up to max_results articles.
ArticleLists == UNION {[1..n -> Articles] : n \in 0..max_results}

\* A dict filled with setdefault: an existing key keeps its first value.
DictSetDefault(d, title, link) ==
    IF \E i \in 1..Len(d) : d[i][1] = title THEN d ELSE Append(d, <<title, link>>)

\* article_link[title] = link on a dict, which keeps its keys in insertion order:
\* a new key is appended, an existing key keeps its place and takes the new value.
DictSet(d, title, link) ==
    IF \E i \in 1..Len(d) : d[i][1] = title
    THEN [i \in 1..Len(d) |-> IF d[i][1] = title THEN <<title, link>> ELSE d[i]]
    ELSE Append(d, <<title, link>>)

\* Lines 213-217: the dict after the first n articles.
RECURSIVE BuildArticleLink(_, _)
BuildArticleLink(articles, n) ==
    IF n = 0
    THEN <<>>
    ELSE DictSet(BuildArticleLink(articles, n - 1),
                 articles[n].title, articles[n].url)

\* Lines 198-221.
Headlines ==
    /\ pc = "headlines"
    /\ panels' = Append(panels, "Headlines")
    /\ all_articles' \in ArticleLists
    /\ article_link' = BuildArticleLink(all_articles', Len(all_articles'))
    /\ headlines_out' = article_link'
    /\ pc' = "done"
    /\ UNCHANGED <<renders, schedule_cache, session_cache, calls, bodyRuns, returned,
                   nextId, year_selection, race_selection, race_format_selection,
                   placeholder, race, driver1, driver2, gear_cols, position_out>>
    /\ UNCHANGED gearVars


\* ------------------------------------------ the segment-colour transform

\* custom_gear_colors, lines 116-125
custom_gear_colors ==
    << "#FF0000", "#FF4500", "#FFA500", "#FFD700",
       "#D9FF2FEB", "#7FFF00", "#00FF00", "#008000" >>

\* A telemetry sample: X, Y and nGear.
Samples == [X : 0..MaxCoord, Y : {0, 1}, nGear : 1..MaxTelGear]

\* A lap of two samples whose first gear lies anywhere around the palette's range.
GearProbes ==
    {<< [X |-> 0, Y |-> 0, nGear |-> g], [X |-> 1, Y |-> 0, nGear |-> 1] >> :
        g \in (1 - MaxGearDev)..(8 + MaxGearDev)}

\* fastest_lap.get_telemetry().add_distance(), line 137
Telemetries == UNION {[1..n -> Samples] : n \in 0..MaxSamples} \cup GearProbes

\* a[:-1]
AllButLast(a) == IF Len(a) = 0 THEN <<>> ELSE SubSeq(a, 1, Len(a) - 1)

\* a[1:]
AllButFirst(a) == IF Len(a) = 0 THEN <<>> ELSE SubSeq(a, 2, Len(a))

\* np.array([x, y]).T.reshape(-1, 1, 2), lines 140-142: one (X, Y) per sample.
Points(t) == [k \in 1..Len(t) |-> <<t[k].X, t[k].Y>>]

\* The path closed on itself: the last point joined back to the first.
SegmentsClosed(pts) == [k \in 1..Len(pts) |-> <<pts[k], pts[(k % Len(pts)) + 1]>>]

\* The two slices concatenated in the other order.
SegmentsSwapped(pts) ==
    LET starts == AllButLast(pts)
        ends == AllButFirst(pts)
    IN [k \in 1..Len(starts) |-> <<ends[k], starts[k]>>]

\* np.concatenate([points[:-1], points[1:]], axis=1), line 143: row k joins the
\* k-th point of the first array and the k-th point of the second.
Segments(pts) ==
    LET starts == AllButLast(pts)
        ends == AllButFirst(pts)
    IN [k \in 1..Len(starts) |-> <<starts[k], ends[k]>>]

\* The gear array cut to the number of segments from the wrong end.
GearArrayShifted(t) == AllButFirst([k \in 1..Len(t) |-> t[k].nGear])

\* tel['nGear'].to_numpy().astype(float), line 144
GearArray(t) == [k \in 1..Len(t) |-> t[k].nGear]

\* plt.Normalize(1, 9), line 150: (value - vmin) / (vmax - vmin), as a fraction.
Normalize(vmin, vmax, value) == [num |-> value - vmin, den |-> vmax - vmin]

\* A normalisation starting at gear 0.
GearNormFromZero(value) == Normalize(0, 8, value)

GearNorm(value) == Normalize(1, 9, value)

\* The quotient rounded towards zero, as astype(int) rounds.
Trunc(num, den) == IF num >= 0 THEN num \div den ELSE -((-num) \div den)

\* ListedColormap(custom_gear_colors) applied to a normalised value, line 148:
\* the value is scaled by the number of colours N, exactly N counts as N - 1,
\* values below 0 take the first colour and values of N or more the last.
CmapIndex(colors, v) ==
    LET N == Len(colors)
        under == v.num < 0
        over == v.num * N > N * v.den
        xa == IF v.num * N = N * v.den THEN N - 1 ELSE Trunc(v.num * N, v.den)
    IN IF under THEN 0 ELSE IF over THEN N - 1 ELSE xa

\* The colour the collection draws segment k with: the k-th entry of its array,
\* normalised and looked up in the colour map.
SegmentColor(array, k) == custom_gear_colors[CmapIndex(custom_gear_colors, GearNorm(array[k])) + 1]

\* Lines 140-142.
PreparePoints ==
    /\ gpc = "telemetry"
    /\ points' = Points(tel)
    /\ gpc' = "points"
    /\ UNCHANGED <<tel, segments, gear, lc_comp>>
    /\ UNCHANGED renderVars

\* Line 143.
BuildSegments ==
    /\ gpc = "points"
    /\ segments' = Segments(points)
    /\ gpc' = "segments"
    /\ UNCHANGED <<tel, points, gear, lc_comp>>
    /\ UNCHANGED renderVars

\* Lines 144-152: the gear array, and the collection it is handed to.
SetArray ==
    /\ gpc = "segments"
    /\ gear' = GearArray(tel)
    /\ lc_comp' = [segments |-> segments, array |-> gear', colors |-> <<>>]
    /\ gpc' = "collection"
    /\ UNCHANGED <<tel, points, segments>>
    /\ UNCHANGED renderVars

\* Lines 154-166: the figure is drawn, each segment in the colour of its entry.
DrawCollection ==
    /\ gpc = "collection"
    /\ lc_comp' = [lc_comp EXCEPT !.colors =
                      [k \in 1..Len(lc_comp.segments) |-> SegmentColor(lc_comp.array, k)]]
    /\ gpc' = "drawn"
    /\ UNCHANGED <<tel, points, segments, gear>>
    /\ UNCHANGED renderVars

NoCollection == [segments |-> <<>>, array |-> <<>>, colors |-> <<>>]

\* ------------------------------------------------------ the specification

Init ==
    /\ pc = "idle"
    /\ renders = 0
    /\ schedule_cache = << >>
    /\ session_cache = << >>
    /\ calls = [k \in SessionKeys |-> 0]
    /\ bodyRuns = [k \in SessionKeys |-> 0]
    /\ returned = [k \in SessionKeys |-> {}]
    /\ nextId = 1
    /\ year_selection = 2024
    /\ race_selection = None
    /\ race_format_selection = None
    /\ placeholder = None
    /\ race = NoSession
    /\ driver1 = None
    /\ driver2 = None
    /\ gear_cols = EmptyCols
    /\ position_out = <<>>
    /\ panels = <<>>
    /\ all_articles = <<>>
    /\ article_link = <<>>
    /\ headlines_out = <<>>
    /\ gpc = "idle"
    /\ tel = <<>>
    /\ points = <<>>
    /\ segments = <<>>
    /\ gear = <<>>
    /\ lc_comp = NoCollection

Next ==
    \/ Sidebar
    \/ LoadData
    \/ SelectDrivers
    \/ LapTimeTrace
    \/ TirePace
    \/ GearHeader
    \/ \E i \in {0, 1} : GearChange(i)
    \/ PositionChange
    \/ Headlines

Spec == Init /\ [][Next]_vars

\* The gear-track transform on its own: one fastest lap's telemetry, lines 137-166.
InitGear ==
    /\ pc = "idle"
    /\ renders = 0
    /\ schedule_cache = << >>
    /\ session_cache = << >>
    /\ calls = [k \in SessionKeys |-> 0]
    /\ bodyRuns = [k \in SessionKeys |-> 0]
    /\ returned = [k \in SessionKeys |-> {}]
    /\ nextId = 1
    /\ year_selection = 2024
    /\ race_selection = None
    /\ race_format_selection = None
    /\ placeholder = None
    /\ race = NoSession
    /\ driver1 = None
    /\ driver2 = None
    /\ gear_cols = EmptyCols
    /\ position_out = <<>>
    /\ panels = <<>>
    /\ all_articles = <<>>
    /\ article_link = <<>>
    /\ headlines_out = <<>>
    /\ gpc = "telemetry"
    /\ tel \in Telemetries
    /\ points = <<>>
    /\ segments = <<>>
    /\ gear = <<>>
    /\ lc_comp = NoCollection

NextGear ==
    \/ PreparePoints
    \/ BuildSegments
    \/ SetArray
    \/ DrawCollection

SpecGear == InitGear /\ [][NextGear]_vars

\* ------------------------------------------------------------- the claims

\* C1: applied to N telemetry samples, the transform produces exactly N-1
\* segments when N >= 2 and an empty collection when N is 0 or 1.
C1_SegmentCount ==
    gpc \in {"segments", "collection", "drawn"} =>
        Len(segments) = (IF Len(tel) >= 2 THEN Len(tel) - 1 ELSE 0)

C1_Witness == gpc = "drawn" /\ Len(tel) = 3 /\ Len(segments) = 2

C1_WitnessShort == gpc = "drawn" /\ Len(tel) = 1 /\ Len(segments) = 0

\* C2: the gear that colours segment i is the gear of sample i, the segment's
\* start, although the array handed to the collection has N entries for the
\* N-1 segments.
C2_StartGear ==
    gpc = "drawn" =>
        /\ Len(lc_comp.array) = Len(tel)
        /\ Len(lc_comp.colors) = Len(lc_comp.segments)
        /\ \A k \in 1..Len(lc_comp.segments) :
             /\ lc_comp.array[k] = tel[k].nGear
             /\ tel[k].nGear \in 1..8 => lc_comp.colors[k] = custom_gear_colors[tel[k].nGear]

C2_Witness ==
    /\ gpc = "drawn"
    /\ Len(tel) = 3
    /\ tel[1].nGear = 1 /\ tel[2].nGear = 2 /\ tel[3].nGear = 1
    /\ lc_comp.colors = << "#FF0000", "#FF4500" >>

\* C3: segment i starts at the (X, Y) of sample i and ends at the (X, Y) of
\* sample i+1, for every i, in the order of the samples.
C3_Endpoints ==
    gpc \in {"segments", "collection", "drawn"} =>
        \A k \in 1..(Len(tel) - 1) :
            /\ k <= Len(segments)
            /\ segments[k] = << <<tel[k].X, tel[k].Y>>, <<tel[k + 1].X, tel[k + 1].Y>> >>

C3_Witness ==
    /\ gpc = "segments"
    /\ Len(tel) = 3
    /\ segments = << << <<1, 1>>, <<0, 0>> >>, << <<0, 0>>, <<1, 0>> >> >>

\* C4: a gear g in 1..8 is drawn in palette entry g-1, a gear below 1 in the
\* colour of gear 1 and a gear above 8 in the colour of gear 8.
C4_ColorClamp ==
    gpc = "drawn" =>
        \A k \in 1..Len(lc_comp.colors) :
            LET g == tel[k].nGear
                nearest == IF g < 1 THEN 1 ELSE IF g > 8 THEN 8 ELSE g
            IN lc_comp.colors[k] = custom_gear_colors[(nearest - 1) + 1]

C4_Witness ==
    /\ gpc = "drawn"
    /\ Len(tel) = 2
    /\ tel[1].nGear = 9
    /\ lc_comp.colors = << "#008000" >>

C4_WitnessBelow ==
    gpc = "drawn" /\ Len(tel) = 2 /\ tel[1].nGear = 0 /\ lc_comp.colors = << "#FF0000" >>

IsWarning(out) == out \in {"warning: No lap data available", "warning: No valid lap found"}

\* The script is past both iterations of the gear-change loop.
GearLoopDone == pc \in {"position", "headlines", "done", "error"}

\* C5: each gear-track column ends with exactly one output, a warning when the
\* driver has no laps or no fastest lap and a chart otherwise, whatever the
\* other driver's outcome, and the panel raises no error (a render aborts only
\* in the position-change panel, after both columns are filled).
C5_GearColumns ==
    /\ GearLoopDone =>
         \A i \in {0, 1} :
            LET driver_laps == pick_drivers(race, drivers_to_plot[i + 1]) IN
            /\ Len(gear_cols[i]) = 1
            /\ (driver_laps.n = 0 \/ ~driver_laps.valid) => IsWarning(gear_cols[i][1])
            /\ (driver_laps.n > 0 /\ driver_laps.valid) => gear_cols[i][1] = "chart"
    /\ pc = "gear1" => Len(gear_cols[0]) = 1
    /\ pc = "error" => GearLoopDone /\ panels[Len(panels)] = "Position Change"

C5_Witness ==
    /\ pc = "position"
    /\ driver1 # driver2
    /\ pick_drivers(race, drivers_to_plot[1]).n = 0
    /\ gear_cols[0] = << "warning: No lap data available" >>
    /\ gear_cols[1] = << "chart" >>

\* The script has run to its end or has been aborted by an exception.
RenderEnded == pc \in {"done", "error"}

InPanels(name) == \E k \in 1..Len(panels) : panels[k] = name

\* C6: in every render in which a selected driver has no lap data, the
\* position-change panel and the headline list are still rendered after the
\* gear-track warning.
C6_LaterPanelsRendered ==
    (RenderEnded /\ \E i \in {0, 1} : gear_cols[i] = << "warning: No lap data available" >>) =>
        /\ Len(position_out) = 1
        /\ InPanels("Headlines")

CurrentKey == <<year_selection, race_selection, race_format_selection>>

\* C7: load_race_session runs its body exactly once per key however often it is
\* invoked with that key, every invocation with a key returns the same session
\* object, and no invocation returns the session of another key.
C7_LoadOnce ==
    /\ \A k \in SessionKeys :
         /\ bodyRuns[k] = (IF calls[k] > 0 THEN 1 ELSE 0)
         /\ Cardinality(returned[k]) <= 1
         /\ \A k2 \in SessionKeys \ {k} : returned[k] \cap returned[k2] = {}
    /\ pc \notin {"idle", "load"} => race.key = CurrentKey /\ race.id \in returned[CurrentKey]

C7_Witness ==
    \E k \in SessionKeys :
        /\ calls[k] >= 2
        /\ \E k2 \in SessionKeys \ {k} : calls[k2] >= 1

PositionPanelRan == InPanels("Position Change")

\* C9: the position-change panel, once reached, has produced exactly one
\* output: the note and no chart for Qualifying; for Race the chart with the
\* Y axis inverted and ticks at 1, 5, 10, 15, 20, and no note.
C9_OneOutputByFormat ==
    PositionPanelRan =>
        /\ Len(position_out) = 1
        /\ race_format_selection = "Q" => position_out[1].kind = "note"
        /\ race_format_selection = "R" =>
             /\ position_out[1].kind = "chart"
             /\ position_out[1].ylim[1] > position_out[1].ylim[2]
             /\ position_out[1].yticks = <<1, 5, 10, 15, 20>>

TitleSet == {all_articles[k].title : k \in 1..Len(all_articles)}

FirstIndex(title) ==
    CHOOSE k \in 1..Len(all_articles) :
        /\ all_articles[k].title = title
        /\ \A j \in 1..(k - 1) : all_articles[j].title # title

LastIndex(title) ==
    CHOOSE k \in 1..Len(all_articles) :
        /\ all_articles[k].title = title
        /\ \A j \in (k + 1)..Len(all_articles) : all_articles[j].title # title

\* At most max_results entries, one per distinct title, by first occurrence.
OnePerTitleInOrder ==
    /\ Len(headlines_out) <= max_results
    /\ Len(headlines_out) = Cardinality(TitleSet)
    /\ {headlines_out[i][1] : i \in 1..Len(headlines_out)} = TitleSet
    /\ \A i, j \in 1..Len(headlines_out) :
         i < j => FirstIndex(headlines_out[i][1]) < FirstIndex(headlines_out[j][1])

\* C10: the headline list shows at most 3 entries, one per distinct title in
\* order of first occurrence, each with the URL of the first article carrying
\* the title.
C10_FirstOccurrenceKept ==
    pc = "done" =>
        /\ OnePerTitleInOrder
        /\ \A i \in 1..Len(headlines_out) :
             headlines_out[i][2] = all_articles[FirstIndex(headlines_out[i][1])].url

\* C10, amended: the headline list shows at most 3 entries, one per distinct
\* title in order of first occurrence, each with the URL of the last article
\* carrying the title.
C10_LastUrlKept ==
    pc = "done" =>
        /\ OnePerTitleInOrder
        /\ \A i \in 1..Len(headlines_out) :
             headlines_out[i][2] = all_articles[LastIndex(headlines_out[i][1])].url

C10_Witness ==
    /\ pc = "done"
    /\ Len(all_articles) = 3
    /\ all_articles[1] = [title |-> "t1", url |-> "u1"]
    /\ all_articles[2] = [title |-> "t2", url |-> "u1"]
    /\ all_articles[3] = [title |-> "t1", url |-> "u2"]
    /\ headlines_out = << <<"t1", "u2">>, <<"t2", "u1">> >>

====
